---- MODULE Spec2Model ----
(***************************************************************************)
(* Voyage position history of the maritime tracking backend:               *)
(* VoyageHistoryService (core/services/voyage_history.py) over the         *)
(* VesselPosition, Voyage, Vessel and VoyageAuditLog tables                *)
(* (core/models.py).  Times are whole hours.                               *)
(***************************************************************************)
EXTENDS Integers, Sequences, FiniteSets, TLC

(* ------------------------------ bounds -------------------------------- *)
\* number of service calls started in one behaviour
MaxCalls == 2
\* position timestamps and voyage times range over 0..MaxTime
MaxTime == 3

(* ------------------------- program constants --------------------------- *)
\* Python None / SQL NULL of an optional numeric column or foreign key
NULL == -1
\* timedelta(hours=2) buffer of the planned-voyage lookup
GraceHours == 2
\* POSITION_RETENTION_DAYS default
position_retention_days == 365
\* AUDIT_RETENTION_DAYS default
audit_retention_days == 2555

(* ------------------------------ domains -------------------------------- *)
Vessels == {"v1", "v2"}
\* vessel=None of a system action
NoVessel == "NONE"
VoyageIds == {1, 2}
Procs == {"p1", "p2"}
SeqProcs == {"p1"}
\* the caller that only reads
Readers == {"p2"}
Timestamps == 0..MaxTime
Statuses == {"PLANNED", "IN_PROGRESS", "COMPLETED", "CANCELLED"}
DepartureTimes == {1, MaxTime}
ArrivalTimes == {NULL, 2}
\* the values a caller passes with one position report
Samples ==
  { [latitude |-> 10, longitude |-> 50, speed |-> NULL, heading |-> NULL,
     source |-> "AIS", accuracy |-> NULL],
    [latitude |-> 12, longitude |-> 52, speed |-> 8, heading |-> 90,
     source |-> "GPS", accuracy |-> 5] }
\* the position reports callers send: every hour of v1, which has the voyages, and
\* one hour of v2, which has none
Reports ==
  { r \in [vessel : Vessels, timestamp : Timestamps, sample : Samples] :
      r.vessel = "v2" => r.timestamp = 1 }
\* the reports sent where the other operations run too
CoreReports == { r \in Reports : r.sample.source = "GPS" }
\* the reports concurrent callers send
ConcReports == { r \in Reports : r.timestamp \in {0, 1} }
\* the instants timezone.now() takes: the first puts the position cutoff at
\* hour 2, the second puts the audit cutoff after the first instant
FirstInstant == position_retention_days * 24 + 2
SecondInstant == FirstInstant + audit_retention_days * 24 + 1

VARIABLES
  positions,      \* committed VesselPosition rows
  voyages,        \* committed Voyage rows, by id
  vessels,        \* committed Vessel rows (the cached last-known position), by vessel
  audit,          \* committed VoyageAuditLog rows, in id order
  nextId,         \* the VesselPosition id sequence
  now,            \* timezone.now()
  calls,          \* service calls started so far
  pc,             \* where each caller is in its call
  args,           \* the arguments of each caller's call
  active_voyage,  \* record_position's local active_voyage
  tx,             \* the uncommitted writes of each caller's transaction.atomic() block
  ret             \* what each caller's last call returned or raised

vars == <<positions, voyages, vessels, audit, nextId, now, calls, pc, args,
          active_voyage, tx, ret>>

(* ------------------------------- rows ---------------------------------- *)
EmptyTx == [started |-> {}, audit |-> <<>>, pos |-> {}, vessel |-> {}]
NoArgs == [op |-> "none"]
NoRet == [kind |-> "none"]

\* the four persisted tables as one value
Committed ==
  [positions |-> positions, voyages |-> voyages, vessels |-> vessels, audit |-> audit]

\* VoyageAuditLog.log_action: the row it creates
AuditEntry(action, vessel, voyage, auto_started) ==
  [action |-> action, vessel |-> vessel, voyage |-> voyage,
   auto_started |-> auto_started, timestamp |-> now]

\* the NOT NULL vessel column of VoyageAuditLog rejects vessel=None
LogActionFails(vessel) == vessel = NoVessel

(* ----------------------- transaction.atomic() -------------------------- *)
\* a mutation of ApplyWrites: the block's audit entries replace the log
ApplyWritesReplacesAudit(db, w) ==
  [positions |-> db.positions \cup w.pos,
   voyages |-> [id \in VoyageIds |->
                  IF id \in w.started
                    THEN [db.voyages[id] EXCEPT !.status = "IN_PROGRESS"]
                    ELSE db.voyages[id]],
   vessels |-> [v \in Vessels |->
                  IF \E c \in w.vessel : c.vessel = v
                    THEN (CHOOSE c \in w.vessel : c.vessel = v).row
                    ELSE db.vessels[v]],
   audit |-> w.audit]

\* the tables once the block's writes w are committed
ApplyWrites(db, w) ==
  [positions |-> db.positions \cup w.pos,
   voyages |-> [id \in VoyageIds |->
                  IF id \in w.started
                    THEN [db.voyages[id] EXCEPT !.status = "IN_PROGRESS"]
                    ELSE db.voyages[id]],
   vessels |-> [v \in Vessels |->
                  IF \E c \in w.vessel : c.vessel = v
                    THEN (CHOOSE c \in w.vessel : c.vessel = v).row
                    ELSE db.vessels[v]],
   audit |-> db.audit \o w.audit]

\* a mutation of AtomicRollback: the block's writes survive the exception
RollbackKeepsWrites(db, w) == ApplyWrites(db, w)

\* the tables once the block is left by an exception: its writes are rolled back
AtomicRollback(db, w) == db

SetCommitted(db) ==
  /\ positions' = db.positions
  /\ voyages' = db.voyages
  /\ vessels' = db.vessels
  /\ audit' = db.audit

(* ----------------------- _find_active_voyage --------------------------- *)
\* a mutation of InProgressMatches: the departure bound is exclusive
InProgressMatchesExclusive(voys, vessel, timestamp) ==
  { id \in VoyageIds :
      /\ voys[id].vessel = vessel
      /\ voys[id].status = "IN_PROGRESS"
      /\ voys[id].departure_time < timestamp
      /\ (voys[id].arrival_time = NULL \/ voys[id].arrival_time >= timestamp) }

\* a mutation of InProgressMatches: the arrival bound is not applied
InProgressMatchesNoArrival(voys, vessel, timestamp) ==
  { id \in VoyageIds :
      /\ voys[id].vessel = vessel
      /\ voys[id].status = "IN_PROGRESS"
      /\ voys[id].departure_time <= timestamp }

\* the IN_PROGRESS voyages of the vessel that contain the timestamp
InProgressMatches(voys, vessel, timestamp) ==
  { id \in VoyageIds :
      /\ voys[id].vessel = vessel
      /\ voys[id].status = "IN_PROGRESS"
      /\ voys[id].departure_time <= timestamp
      /\ (voys[id].arrival_time = NULL \/ voys[id].arrival_time >= timestamp) }

\* a mutation of PlannedMatches: no buffer
PlannedMatchesNoBuffer(voys, vessel, timestamp) ==
  { id \in VoyageIds :
      /\ voys[id].vessel = vessel
      /\ voys[id].status = "PLANNED"
      /\ voys[id].departure_time <= timestamp }

\* a mutation of PlannedMatches: the status filter is not applied
PlannedMatchesAnyStatus(voys, vessel, timestamp) ==
  { id \in VoyageIds :
      /\ voys[id].vessel = vessel
      /\ voys[id].departure_time <= timestamp + GraceHours }

\* the PLANNED voyages of the vessel that should have started
PlannedMatches(voys, vessel, timestamp) ==
  { id \in VoyageIds :
      /\ voys[id].vessel = vessel
      /\ voys[id].status = "PLANNED"
      /\ voys[id].departure_time <= timestamp + GraceHours }

\* .first() under Voyage.Meta.ordering = ['-departure_time']: a row of S with the
\* latest departure (the database picks among equal ones)
FirstVoyage(voys, S) ==
  { id \in S : \A o \in S : voys[o].departure_time <= voys[id].departure_time }

(* --------------------------- the unique index -------------------------- *)
\* a mutation of UniqueTogetherViolated: no unique index
NoUniqueIndex(rows, vessel, timestamp) == FALSE

\* unique_together = ('vessel', 'timestamp'): rows already holds the key
UniqueTogetherViolated(rows, vessel, timestamp) ==
  \E r \in rows : r.vessel = vessel /\ r.timestamp = timestamp

\* the rows other callers have inserted and not yet committed
PendingRows(p) == UNION { tx[q].pos : q \in Procs \ {p} }

(* ------------------------------- Init ---------------------------------- *)
VoyageRows ==
  { r \in [vessel : {"v1"}, departure_time : DepartureTimes,
           arrival_time : ArrivalTimes, status : Statuses] :
      r.arrival_time = NULL \/ r.arrival_time >= r.departure_time }

AtMostOneInProgress(voys) ==
  \A v \in Vessels :
    Cardinality({ id \in VoyageIds :
                    voys[id].vessel = v /\ voys[id].status = "IN_PROGRESS" }) <= 1

Init ==
  /\ positions = {}
  /\ voyages \in [VoyageIds -> VoyageRows]
  /\ AtMostOneInProgress(voyages)
  /\ vessels = [v \in Vessels |->
                  [last_position_lat |-> NULL, last_position_lon |-> NULL,
                   speed |-> NULL, heading |-> NULL, last_update |-> FirstInstant]]
  /\ audit = <<>>
  /\ nextId = 1
  /\ now = FirstInstant
  /\ calls = 0
  /\ pc = [p \in Procs |-> "idle"]
  /\ args = [p \in Procs |-> NoArgs]
  /\ active_voyage = [p \in Procs |-> NULL]
  /\ tx = [p \in Procs |-> EmptyTx]
  /\ ret = [p \in Procs |-> NoRet]

Idle(p) == pc[p] \in {"idle", "done", "raised"}

(* --------------------------- record_position --------------------------- *)
\* the except clause: the block's exception rolls the transaction back and is re-raised
Raise(p, error) ==
  /\ SetCommitted(AtomicRollback(Committed, tx[p]))
  /\ tx' = [tx EXCEPT ![p] = EmptyTx]
  /\ pc' = [pc EXCEPT ![p] = "raised"]
  /\ ret' = [ret EXCEPT ![p] = [kind |-> "raised", error |-> error]]

\* leaving the block by return: the transaction commits
Return(p, w, r) ==
  /\ SetCommitted(ApplyWrites(Committed, w))
  /\ tx' = [tx EXCEPT ![p] = EmptyTx]
  /\ pc' = [pc EXCEPT ![p] = "done"]
  /\ ret' = [ret EXCEPT ![p] = r]

\* a caller loads the vessel and calls record_position
RP_Begin(p, reports) ==
  /\ Idle(p)
  /\ calls < MaxCalls
  /\ calls' = calls + 1
  /\ \E r \in reports :
       args' = [args EXCEPT ![p] =
                  [op |-> "record_position", vessel |-> r.vessel,
                   timestamp |-> r.timestamp, sample |-> r.sample,
                   obj |-> vessels[r.vessel]]]
  /\ pc' = [pc EXCEPT ![p] = "find"]
  /\ tx' = [tx EXCEPT ![p] = EmptyTx]
  /\ active_voyage' = [active_voyage EXCEPT ![p] = NULL]
  /\ ret' = [ret EXCEPT ![p] = NoRet]
  /\ UNCHANGED <<positions, voyages, vessels, audit, nextId, now>>

\* active_voyage = self._find_active_voyage(vessel, timestamp)
RP_FindActive(p) ==
  /\ pc[p] = "find"
  /\ LET a == args[p]
         inprog == InProgressMatches(voyages, a.vessel, a.timestamp)
         planned == PlannedMatches(voyages, a.vessel, a.timestamp)
     IN \/ /\ inprog # {}
           /\ \E id \in FirstVoyage(voyages, inprog) :
                active_voyage' = [active_voyage EXCEPT ![p] = id]
           /\ pc' = [pc EXCEPT ![p] = "check"]
           /\ UNCHANGED <<positions, voyages, vessels, audit, tx, ret>>
        \/ /\ inprog = {}
           /\ planned # {}
           /\ \E id \in FirstVoyage(voyages, planned) :
                \* planned_voyage.save() and the VOYAGE_UPDATED entry
                /\ active_voyage' = [active_voyage EXCEPT ![p] = id]
                /\ tx' = [tx EXCEPT ![p].started = @ \cup {id},
                                    ![p].audit = Append(@,
                                       AuditEntry("VOYAGE_UPDATED", a.vessel, id, TRUE))]
           /\ pc' = [pc EXCEPT ![p] = "check"]
           /\ UNCHANGED <<positions, voyages, vessels, audit, ret>>
        \/ /\ inprog = {}
           /\ planned # {}
           \* the store fails on the save or on the audit write
           /\ Raise(p, "DatabaseError")
           /\ UNCHANGED active_voyage
        \/ /\ inprog = {}
           /\ planned = {}
           /\ pc' = [pc EXCEPT ![p] = "check"]
           /\ UNCHANGED <<positions, voyages, vessels, audit, tx, ret, active_voyage>>
  /\ UNCHANGED <<nextId, now, calls, args>>

\* a mutation of ExistingPositions: the duplicate check finds nothing
NoExistingPositions(rows, vessel, timestamp) == {}

\* VesselPosition.objects.filter(vessel=vessel, timestamp=timestamp)
ExistingPositions(rows, vessel, timestamp) ==
  { r \in rows : r.vessel = vessel /\ r.timestamp = timestamp }

\* existing_position = ....first(); if existing_position: return existing_position
RP_CheckDuplicate(p) ==
  /\ pc[p] = "check"
  /\ LET a == args[p]
         existing == ExistingPositions(positions, a.vessel, a.timestamp)
     IN \/ /\ existing # {}
           /\ \E r \in existing :
                Return(p, tx[p], [kind |-> "position", id |-> r.id, created |-> FALSE])
        \/ /\ existing = {}
           /\ pc' = [pc EXCEPT ![p] = "insert"]
           /\ UNCHANGED <<positions, voyages, vessels, audit, tx, ret>>
  /\ UNCHANGED <<nextId, now, calls, args, active_voyage>>

\* position = VesselPosition.objects.create(...)
RP_Insert(p) ==
  /\ pc[p] = "insert"
  /\ LET a == args[p]
         s == a.sample
     IN \* the insert waits while another transaction holds the same uncommitted key
        /\ ~UniqueTogetherViolated(PendingRows(p), a.vessel, a.timestamp)
        /\ \/ /\ UniqueTogetherViolated(positions, a.vessel, a.timestamp)
              /\ Raise(p, "IntegrityError")
              /\ UNCHANGED nextId
           \/ /\ ~UniqueTogetherViolated(positions, a.vessel, a.timestamp)
              /\ tx' = [tx EXCEPT ![p].pos =
                          { [id |-> nextId, vessel |-> a.vessel,
                             voyage |-> active_voyage[p],
                             latitude |-> s.latitude, longitude |-> s.longitude,
                             speed |-> s.speed, heading |-> s.heading,
                             timestamp |-> a.timestamp, source |-> s.source,
                             accuracy |-> s.accuracy, is_interpolated |-> FALSE] }]
              /\ nextId' = nextId + 1
              /\ pc' = [pc EXCEPT ![p] = "save"]
              /\ UNCHANGED <<positions, voyages, vessels, audit, ret>>
           \/ /\ ~UniqueTogetherViolated(positions, a.vessel, a.timestamp)
              \* the store fails on the insert
              /\ Raise(p, "DatabaseError")
              /\ UNCHANGED nextId
  /\ UNCHANGED <<now, calls, args, active_voyage>>

\* the Vessel row vessel.save() writes: every field of the caller's object, with
\* last_update overwritten by auto_now
SavedVessel(obj, s, clock) ==
  [last_position_lat |-> s.latitude,
   last_position_lon |-> s.longitude,
   speed |-> IF s.speed # NULL THEN s.speed ELSE obj.speed,
   heading |-> IF s.heading # NULL THEN s.heading ELSE obj.heading,
   last_update |-> clock]

\* vessel.last_position_lat = ... ; vessel.save()
RP_SaveVessel(p) ==
  /\ pc[p] = "save"
  /\ \/ /\ tx' = [tx EXCEPT ![p].vessel =
                    { [vessel |-> args[p].vessel,
                       row |-> SavedVessel(args[p].obj, args[p].sample, now)] }]
        /\ pc' = [pc EXCEPT ![p] = "log"]
        /\ UNCHANGED <<positions, voyages, vessels, audit, ret>>
     \/ \* the store fails on the save
        Raise(p, "DatabaseError")
  /\ UNCHANGED <<nextId, now, calls, args, active_voyage>>

\* VoyageAuditLog.log_action(action='POSITION_RECORDED'); return position
RP_LogAction(p) ==
  /\ pc[p] = "log"
  /\ \/ \E r \in tx[p].pos :
          Return(p,
                 [tx[p] EXCEPT !.audit = Append(@,
                    AuditEntry("POSITION_RECORDED", args[p].vessel,
                               active_voyage[p], FALSE))],
                 [kind |-> "position", id |-> r.id, created |-> TRUE])
     \/ \* the store fails on the audit write
        Raise(p, "DatabaseError")
  /\ UNCHANGED <<nextId, now, calls, args, active_voyage>>

record_position(p, reports) ==
  \/ RP_Begin(p, reports)
  \/ RP_FindActive(p)
  \/ RP_CheckDuplicate(p)
  \/ RP_Insert(p)
  \/ RP_SaveVessel(p)
  \/ RP_LogAction(p)

(* ------------------------------- numbers ------------------------------- *)
\* a Python float is modelled by the exact quotient n/d it stands for, kept in
\* lowest terms with d > 0
Abs(x) == IF x < 0 THEN -x ELSE x

RECURSIVE GCD(_, _)
GCD(a, b) == IF b = 0 THEN a ELSE GCD(b, a % b)

Rat(n, d) ==
  LET g == GCD(Abs(n), Abs(d))
      s == IF d < 0 THEN -1 ELSE 1
  IN [n |-> (s * n) \div g, d |-> (s * d) \div g]

RatOf(i) == [n |-> i, d |-> 1]
RatAdd(x, y) == Rat(x.n * y.d + y.n * x.d, x.d * y.d)
RatSub(x, y) == Rat(x.n * y.d - y.n * x.d, x.d * y.d)
RatMul(x, y) == Rat(x.n * y.n, x.d * y.d)
\* x / y, for y # 0
RatDiv(x, y) == Rat(x.n * y.d, x.d * y.n)
RatLess(x, y) == x.n * y.d < y.n * x.d
\* int(x): truncation toward zero
RatInt(x) == IF x.n >= 0 THEN x.n \div x.d ELSE -((-x.n) \div x.d)

\* round(x, 2): the nearest hundredth, a tie going to the even one
Round2(x) ==
  LET q == (100 * x.n) \div x.d
      r == 100 * x.n - q * x.d
  IN Rat(IF 2 * r < x.d THEN q
         ELSE IF 2 * r > x.d THEN q + 1
         ELSE IF q % 2 = 0 THEN q ELSE q + 1, 100)

\* timedelta.total_seconds() of a difference of whole hours
SecondsPerHour == 3600
total_seconds(hours) == hours * SecondsPerHour

\* VesselPosition.distance_to for the coordinates callers send: the haversine
\* distance of (10, 50) and (12, 52) is 168.262 nautical miles to three decimals
HaversineMilliNm == 168262
distance_to(a, b) ==
  IF a.latitude = b.latitude /\ a.longitude = b.longitude
    THEN RatOf(0)
    ELSE Rat(HaversineMilliNm, 1000)

(* ------------------------------ the reads ------------------------------ *)
\* a caller starts a call that runs outside any transaction
Call(p, a) ==
  /\ Idle(p)
  /\ calls < MaxCalls
  /\ calls' = calls + 1
  /\ args' = [args EXCEPT ![p] = a]
  /\ pc' = [pc EXCEPT ![p] = "done"]
  /\ UNCHANGED <<nextId, now, tx, active_voyage>>

\* a caller starts a read; a reader makes one call, whenever it likes
Query(p, a) ==
  /\ IF p \in Readers
       THEN pc[p] = "idle" /\ calls' = calls
       ELSE Idle(p) /\ calls < MaxCalls /\ calls' = calls + 1
  /\ args' = [args EXCEPT ![p] = a]
  /\ pc' = [pc EXCEPT ![p] = "done"]
  /\ UNCHANGED <<nextId, now, tx, active_voyage>>

\* a mutation of OrderByTimestamp: the rows in the order they were inserted
RECURSIVE OrderById(_)
OrderById(rows) ==
  IF rows = {} THEN <<>>
  ELSE LET r == CHOOSE x \in rows : \A y \in rows : x.id <= y.id
       IN <<r>> \o OrderById(rows \ {r})

\* .order_by('timestamp'): the rows in ascending timestamp order
RECURSIVE OrderByTimestamp(_)
OrderByTimestamp(rows) ==
  IF rows = {} THEN <<>>
  ELSE LET r == CHOOSE x \in rows : \A y \in rows :
                   \/ x.timestamp < y.timestamp
                   \/ (x.timestamp = y.timestamp /\ x.id <= y.id)
       IN <<r>> \o OrderByTimestamp(rows \ {r})

\* the dictionary get_voyage_route returns for one position row
RouteData(r) ==
  [latitude |-> r.latitude, longitude |-> r.longitude, speed |-> r.speed,
   heading |-> r.heading, timestamp |-> r.timestamp, source |-> r.source,
   accuracy |-> r.accuracy, is_interpolated |-> r.is_interpolated]

\* the dictionary get_vessel_history returns for one position row
PositionData(r) ==
  [latitude |-> r.latitude, longitude |-> r.longitude, speed |-> r.speed,
   heading |-> r.heading, timestamp |-> r.timestamp, source |-> r.source,
   accuracy |-> r.accuracy, is_interpolated |-> r.is_interpolated,
   voyage_id |-> r.voyage]

\* get_voyage_route(voyage, include_interpolated)
GetVoyageRoute(p) ==
  \E voyage \in VoyageIds, include_interpolated \in BOOLEAN :
    /\ Query(p, [op |-> "get_voyage_route", voyage |-> voyage,
                 include_interpolated |-> include_interpolated])
    /\ LET entry == AuditEntry("ROUTE_ACCESSED", voyages[voyage].vessel, voyage, FALSE)
           sorted == OrderByTimestamp({ r \in positions :
                        /\ r.voyage = voyage
                        /\ (include_interpolated \/ ~r.is_interpolated) })
       IN \/ /\ audit' = Append(audit, entry)
             /\ ret' = [ret EXCEPT ![p] =
                   [kind |-> "route", error_logged |-> FALSE,
                    route |-> [i \in 1..Len(sorted) |-> RouteData(sorted[i])]]]
          \/ \* the store fails on the audit write: except Exception: return []
             /\ audit' = audit
             /\ ret' = [ret EXCEPT ![p] =
                   [kind |-> "route", error_logged |-> TRUE, route |-> <<>>]]
          \/ \* the store fails on the query
             /\ audit' = Append(audit, entry)
             /\ ret' = [ret EXCEPT ![p] =
                   [kind |-> "route", error_logged |-> TRUE, route |-> <<>>]]
    /\ UNCHANGED <<positions, voyages, vessels>>

\* limit: int = 1000
DefaultLimit == 1000
HistoryLimits == {0, 1, DefaultLimit}
HistoryWindows == { [start |-> 1, end |-> 2] }

\* positions_query[:limit] when limit is truthy
Limited(seq, limit) ==
  IF limit # 0 /\ Len(seq) > limit THEN SubSeq(seq, 1, limit) ELSE seq

\* get_vessel_history(vessel, start_date, end_date, limit)
GetVesselHistory(p) ==
  \E vessel \in Vessels, w \in HistoryWindows, limit \in HistoryLimits :
    /\ Query(p, [op |-> "get_vessel_history", vessel |-> vessel,
                start_date |-> w.start, end_date |-> w.end, limit |-> limit])
    /\ \/ /\ audit' = Append(audit, AuditEntry("ROUTE_ACCESSED", vessel, NULL, FALSE))
          /\ LET rows == Limited(OrderByTimestamp({ r \in positions :
                              /\ r.vessel = vessel
                              /\ r.timestamp >= w.start
                              /\ r.timestamp <= w.end }), limit)
                 list == [i \in 1..Len(rows) |-> PositionData(rows[i])]
             IN ret' = [ret EXCEPT ![p] =
                  [kind |-> "history", positions |-> list,
                   voyages |-> { list[i].voyage_id : i \in 1..Len(list) } \ {NULL},
                   total_positions |-> Len(list),
                   has_more |-> (Len(list) = limit)]]
       \/ \* the store fails: the error dictionary is returned
          /\ audit' = audit
          /\ ret' = [ret EXCEPT ![p] = [kind |-> "error", positions |-> <<>>]]
    /\ UNCHANGED <<positions, voyages, vessels>>

(* -------------------------------- replay ------------------------------- *)
\* POSITION_INTERPOLATION_THRESHOLD default, in minutes
interpolation_threshold_minutes == 30
\* the values settings give the threshold
ThresholdSettings == {interpolation_threshold_minutes, 120}
\* the speed_multiplier values callers pass: 2.0 and 0.5
Multipliers == {Rat(2, 1), Rat(1, 2)}
\* the options of the replay calls made
ReplayOptions ==
  { o \in [speed_multiplier : Multipliers, interpolate_gaps : BOOLEAN,
           threshold : ThresholdSettings] :
      ~o.interpolate_gaps => o.threshold = interpolation_threshold_minutes }

\* None in a float field
NullRat == RatOf(NULL)

\* a mutation of ReplayPosition: the replay time is the offset times the multiplier
ReplayPositionMultiplies(r, previous, voyage, speed_multiplier) ==
  LET time_offset == RatOf(total_seconds(r.timestamp - voyage.departure_time))
  IN [latitude |-> RatOf(r.latitude),
      longitude |-> RatOf(r.longitude),
      speed |-> RatOf(r.speed),
      heading |-> r.heading,
      timestamp |-> r.timestamp,
      time_offset_seconds |-> time_offset,
      replay_time_seconds |-> RatMul(time_offset, speed_multiplier),
      distance_from_previous |->
        IF previous = <<>> THEN RatOf(0)
        ELSE distance_to(r, previous[Len(previous)]),
      source |-> r.source,
      is_interpolated |-> r.is_interpolated]

\* the dictionary of one stored position: r the row, previous the rows before it
ReplayPosition(r, previous, voyage, speed_multiplier) ==
  LET time_offset == RatOf(total_seconds(r.timestamp - voyage.departure_time))
  IN [latitude |-> RatOf(r.latitude),
      longitude |-> RatOf(r.longitude),
      speed |-> RatOf(r.speed),
      heading |-> r.heading,
      timestamp |-> r.timestamp,
      time_offset_seconds |-> time_offset,
      replay_time_seconds |-> RatDiv(time_offset, speed_multiplier),
      distance_from_previous |->
        IF previous = <<>> THEN RatOf(0)
        ELSE distance_to(r, previous[Len(previous)]),
      source |-> r.source,
      is_interpolated |-> r.is_interpolated]

\* Python truthiness of a nullable number: None and 0 are false
Truthy(x) == x # NullRat /\ x.n # 0

\* x % 360 on floats: the result is in [0, 360)
RatMod360(x) == RatSub(x, RatOf(360 * (x.n \div (360 * x.d))))

\* a mutation of InterpolatedPosition: the ratio is j / num_interpolations, so
\* the last point falls on current_pos
InterpolatedPositionReachesEnd(previous_pos, current_pos, j, num_interpolations) ==
  LET ratio == Rat(j, num_interpolations)
      Lerp(x, y) == RatAdd(x, RatMul(RatSub(y, x), ratio))
      time_gap == RatSub(current_pos.time_offset_seconds,
                         previous_pos.time_offset_seconds)
      interp_time == RatAdd(previous_pos.time_offset_seconds, RatMul(time_gap, ratio))
      raw_diff == current_pos.heading - previous_pos.heading
      heading_diff == IF raw_diff > 180 THEN raw_diff - 360
                      ELSE IF raw_diff < -180 THEN raw_diff + 360
                      ELSE raw_diff
      interp_heading ==
        RatMod360(RatAdd(RatOf(previous_pos.heading),
                         RatMul(RatOf(heading_diff), ratio)))
      both_headings == /\ previous_pos.heading \notin {NULL, 0}
                       /\ current_pos.heading \notin {NULL, 0}
  IN [latitude |-> Lerp(previous_pos.latitude, current_pos.latitude),
      longitude |-> Lerp(previous_pos.longitude, current_pos.longitude),
      speed |-> IF Truthy(previous_pos.speed) /\ Truthy(current_pos.speed)
                  THEN Lerp(previous_pos.speed, current_pos.speed)
                  ELSE NullRat,
      heading |-> IF both_headings /\ interp_heading.n # 0
                    THEN RatInt(interp_heading)
                    ELSE NULL,
      timestamp |-> NULL,
      time_offset_seconds |-> interp_time,
      replay_time_seconds |-> interp_time,
      distance_from_previous |-> RatOf(0),
      source |-> "INTERPOLATED",
      is_interpolated |-> TRUE]

\* a mutation of InterpolatedPosition: the heading difference is not brought
\* into -180..180
InterpolatedPositionLongPath(previous_pos, current_pos, j, num_interpolations) ==
  LET ratio == Rat(j, num_interpolations + 1)
      Lerp(x, y) == RatAdd(x, RatMul(RatSub(y, x), ratio))
      time_gap == RatSub(current_pos.time_offset_seconds,
                         previous_pos.time_offset_seconds)
      interp_time == RatAdd(previous_pos.time_offset_seconds, RatMul(time_gap, ratio))
      raw_diff == current_pos.heading - previous_pos.heading
      heading_diff == raw_diff
      interp_heading ==
        RatMod360(RatAdd(RatOf(previous_pos.heading),
                         RatMul(RatOf(heading_diff), ratio)))
      both_headings == /\ previous_pos.heading \notin {NULL, 0}
                       /\ current_pos.heading \notin {NULL, 0}
  IN [latitude |-> Lerp(previous_pos.latitude, current_pos.latitude),
      longitude |-> Lerp(previous_pos.longitude, current_pos.longitude),
      speed |-> IF Truthy(previous_pos.speed) /\ Truthy(current_pos.speed)
                  THEN Lerp(previous_pos.speed, current_pos.speed)
                  ELSE NullRat,
      heading |-> IF both_headings /\ interp_heading.n # 0
                    THEN RatInt(interp_heading)
                    ELSE NULL,
      timestamp |-> NULL,
      time_offset_seconds |-> interp_time,
      replay_time_seconds |-> interp_time,
      distance_from_previous |-> RatOf(0),
      source |-> "INTERPOLATED",
      is_interpolated |-> TRUE]

\* the j-th of num_interpolations points between previous_pos and current_pos
InterpolatedPosition(previous_pos, current_pos, j, num_interpolations) ==
  LET ratio == Rat(j, num_interpolations + 1)
      Lerp(x, y) == RatAdd(x, RatMul(RatSub(y, x), ratio))
      time_gap == RatSub(current_pos.time_offset_seconds,
                         previous_pos.time_offset_seconds)
      interp_time == RatAdd(previous_pos.time_offset_seconds, RatMul(time_gap, ratio))
      raw_diff == current_pos.heading - previous_pos.heading
      heading_diff == IF raw_diff > 180 THEN raw_diff - 360
                      ELSE IF raw_diff < -180 THEN raw_diff + 360
                      ELSE raw_diff
      interp_heading ==
        RatMod360(RatAdd(RatOf(previous_pos.heading),
                         RatMul(RatOf(heading_diff), ratio)))
      both_headings == /\ previous_pos.heading \notin {NULL, 0}
                       /\ current_pos.heading \notin {NULL, 0}
  IN [latitude |-> Lerp(previous_pos.latitude, current_pos.latitude),
      longitude |-> Lerp(previous_pos.longitude, current_pos.longitude),
      speed |-> IF Truthy(previous_pos.speed) /\ Truthy(current_pos.speed)
                  THEN Lerp(previous_pos.speed, current_pos.speed)
                  ELSE NullRat,
      heading |-> IF both_headings /\ interp_heading.n # 0
                    THEN RatInt(interp_heading)
                    ELSE NULL,
      timestamp |-> NULL,
      time_offset_seconds |-> interp_time,
      replay_time_seconds |-> interp_time,
      distance_from_previous |-> RatOf(0),
      source |-> "INTERPOLATED",
      is_interpolated |-> TRUE]

\* a mutation of NumInterpolations: one point fewer than the quotient
NumInterpolationsOneLess(time_gap, threshold) ==
  RatInt(RatDiv(time_gap, RatOf(threshold * 60))) - 1

\* int(time_gap / (self.interpolation_threshold_minutes * 60))
NumInterpolations(time_gap, threshold) ==
  RatInt(RatDiv(time_gap, RatOf(threshold * 60)))

\* the points the loop adds before current_pos
GapPositions(previous_pos, current_pos, threshold) ==
  LET time_gap == RatSub(current_pos.time_offset_seconds,
                         previous_pos.time_offset_seconds)
  IN IF RatLess(RatOf(threshold * 60), time_gap)
       THEN LET num_interpolations == NumInterpolations(time_gap, threshold)
            IN [j \in 1..num_interpolations |->
                  InterpolatedPosition(previous_pos, current_pos, j, num_interpolations)]
       ELSE <<>>

\* the loop of _interpolate_replay_positions from index i on
RECURSIVE InterpolateFrom(_, _, _)
InterpolateFrom(replay_positions, i, threshold) ==
  IF i > Len(replay_positions) THEN <<>>
  ELSE GapPositions(replay_positions[i - 1], replay_positions[i], threshold)
       \o <<replay_positions[i]>>
       \o InterpolateFrom(replay_positions, i + 1, threshold)

_interpolate_replay_positions(replay_positions, threshold) ==
  IF Len(replay_positions) < 2 THEN replay_positions
  ELSE <<replay_positions[1]>> \o InterpolateFrom(replay_positions, 2, threshold)

\* sum(pos['distance_from_previous'] for pos in replay_positions)
RECURSIVE SumDistance(_)
SumDistance(replay_positions) ==
  IF replay_positions = <<>> THEN RatOf(0)
  ELSE RatAdd(Head(replay_positions).distance_from_previous,
              SumDistance(Tail(replay_positions)))

\* a mutation of NoPositionData: the empty voyage is reported by an exception
NoPositionDataRaises(message) == [kind |-> "raised", error |-> message]

\* if not positions.exists(): return {..., 'error': message}
NoPositionData(message) == [kind |-> "error", error |-> message]

\* the dictionary generate_replay_data returns for the voyage's rows
ReplayData(rows, voyage, o) ==
  LET sorted == OrderByTimestamp(rows)
      actual == [i \in 1..Len(sorted) |->
                   ReplayPosition(sorted[i], SubSeq(sorted, 1, i - 1), voyage,
                                  o.speed_multiplier)]
      replay_positions == IF o.interpolate_gaps
                            THEN _interpolate_replay_positions(actual, o.threshold)
                            ELSE actual
      total_duration == replay_positions[Len(replay_positions)].time_offset_seconds
      total_distance == SumDistance(replay_positions)
  IN [kind |-> "replay",
      speed_multiplier |-> o.speed_multiplier,
      interpolate_gaps |-> o.interpolate_gaps,
      total_positions |-> Len(replay_positions),
      actual_duration_seconds |-> total_duration,
      replay_duration_seconds |-> RatDiv(total_duration, o.speed_multiplier),
      total_distance_nm |-> Round2(total_distance),
      average_speed |->
        IF total_duration.n > 0
          THEN Round2(RatDiv(total_distance,
                             RatDiv(total_duration, RatOf(SecondsPerHour))))
          ELSE RatOf(0),
      positions |-> replay_positions]

\* a mutation of GenerateReplayData: the completion entry is written for a
\* voyage without positions too
GenerateReplayDataAlwaysCompletes(p) ==
  \E voyage \in VoyageIds, o \in ReplayOptions :
    /\ Query(p, [op |-> "generate_replay_data", voyage |-> voyage,
                 speed_multiplier |-> o.speed_multiplier,
                 interpolate_gaps |-> o.interpolate_gaps,
                 threshold |-> o.threshold])
    /\ LET started == AuditEntry("REPLAY_STARTED", voyages[voyage].vessel, voyage, FALSE)
           completed == AuditEntry("REPLAY_COMPLETED", voyages[voyage].vessel, voyage, FALSE)
           rows == { r \in positions : r.voyage = voyage }
       IN \/ /\ rows = {}
             /\ audit' = audit \o <<started, completed>>
             /\ ret' = [ret EXCEPT ![p] =
                   NoPositionData("No position data available for this voyage")]
          \/ /\ rows # {}
             /\ audit' = audit \o <<started, completed>>
             /\ ret' = [ret EXCEPT ![p] = ReplayData(rows, voyages[voyage], o)]
          \/ \* the store fails on the first audit write
             /\ audit' = audit
             /\ ret' = [ret EXCEPT ![p] = [kind |-> "error", error |-> "DatabaseError"]]
          \/ \* the store fails after the first audit write
             /\ audit' = Append(audit, started)
             /\ ret' = [ret EXCEPT ![p] = [kind |-> "error", error |-> "DatabaseError"]]
    /\ UNCHANGED <<positions, voyages, vessels>>

\* generate_replay_data(voyage, speed_multiplier, interpolate_gaps)
GenerateReplayData(p) ==
  \E voyage \in VoyageIds, o \in ReplayOptions :
    /\ Query(p, [op |-> "generate_replay_data", voyage |-> voyage,
                 speed_multiplier |-> o.speed_multiplier,
                 interpolate_gaps |-> o.interpolate_gaps,
                 threshold |-> o.threshold])
    /\ LET started == AuditEntry("REPLAY_STARTED", voyages[voyage].vessel, voyage, FALSE)
           completed == AuditEntry("REPLAY_COMPLETED", voyages[voyage].vessel, voyage, FALSE)
           rows == { r \in positions : r.voyage = voyage }
       IN \/ /\ rows = {}
             /\ audit' = Append(audit, started)
             /\ ret' = [ret EXCEPT ![p] =
                   NoPositionData("No position data available for this voyage")]
          \/ /\ rows # {}
             /\ audit' = audit \o <<started, completed>>
             /\ ret' = [ret EXCEPT ![p] = ReplayData(rows, voyages[voyage], o)]
          \/ \* the store fails on the first audit write
             /\ audit' = audit
             /\ ret' = [ret EXCEPT ![p] = [kind |-> "error", error |-> "DatabaseError"]]
          \/ \* the store fails after the first audit write
             /\ audit' = Append(audit, started)
             /\ ret' = [ret EXCEPT ![p] = [kind |-> "error", error |-> "DatabaseError"]]
    /\ UNCHANGED <<positions, voyages, vessels>>

(* ------------------------------ statistics ----------------------------- *)
\* a mutation of TotalDistance: the loop stops one pair early
RECURSIVE TotalDistanceStopsEarly(_)
TotalDistanceStopsEarly(positions_list) ==
  IF Len(positions_list) < 3 THEN RatOf(0)
  ELSE RatAdd(TotalDistanceStopsEarly(SubSeq(positions_list, 1, Len(positions_list) - 1)),
              distance_to(positions_list[Len(positions_list) - 1],
                          positions_list[Len(positions_list) - 2]))

\* for i in range(1, len(positions_list)): total_distance += distance_to(...)
RECURSIVE TotalDistance(_)
TotalDistance(positions_list) ==
  IF Len(positions_list) < 2 THEN RatOf(0)
  ELSE RatAdd(TotalDistance(SubSeq(positions_list, 1, Len(positions_list) - 1)),
              distance_to(positions_list[Len(positions_list)],
                          positions_list[Len(positions_list) - 1]))

RECURSIVE SumSpeed(_)
SumSpeed(rows) ==
  IF rows = {} THEN 0
  ELSE LET r == CHOOSE x \in rows : TRUE IN r.speed + SumSpeed(rows \ {r})

\* Min, Max and Avg of the non-null speeds, None (falsy, reported as 0) without any
SpeedAggregates(rows) ==
  LET known == { r \in rows : r.speed # NULL }
      speeds == { r.speed : r \in known }
  IN IF known = {}
       THEN [min_speed |-> RatOf(0), max_speed |-> RatOf(0), avg_speed |-> RatOf(0)]
       ELSE [min_speed |-> RatOf(CHOOSE x \in speeds : \A y \in speeds : x <= y),
             max_speed |-> RatOf(CHOOSE x \in speeds : \A y \in speeds : x >= y),
             avg_speed |-> Rat(SumSpeed(known), Cardinality(known))]

\* the dictionary get_voyage_statistics returns for the voyage's rows
Statistics(rows) ==
  LET positions_list == OrderByTimestamp(rows)
      first_position == positions_list[1].timestamp
      last_position == positions_list[Len(positions_list)].timestamp
      speed == SpeedAggregates(rows)
  IN [kind |-> "statistics",
      total_positions |-> Cardinality(rows),
      total_distance_nm |-> Round2(TotalDistance(positions_list)),
      duration_hours |->
        Round2(Rat(total_seconds(last_position - first_position), SecondsPerHour)),
      average_speed_knots |-> Round2(speed.avg_speed),
      max_speed_knots |-> Round2(speed.max_speed),
      min_speed_knots |-> Round2(speed.min_speed),
      first_position_time |-> first_position,
      last_position_time |-> last_position]

\* get_voyage_statistics(voyage)
GetVoyageStatistics(p) ==
  \E voyage \in VoyageIds :
    /\ Query(p, [op |-> "get_voyage_statistics", voyage |-> voyage])
    /\ LET rows == { r \in positions : r.voyage = voyage }
       IN \/ /\ rows = {}
             /\ ret' = [ret EXCEPT ![p] = NoPositionData("No position data available")]
          \/ /\ rows # {}
             /\ ret' = [ret EXCEPT ![p] = Statistics(rows)]
          \/ \* the store fails: except Exception: return {'error': str(e)}
             ret' = [ret EXCEPT ![p] = [kind |-> "error", error |-> "DatabaseError"]]
    /\ UNCHANGED <<positions, voyages, vessels, audit>>

(* ------------------------- VoyageReplayService ------------------------- *)
\* the frame_index values callers pass
FrameIndexes == {-1, 0, 1}

\* VoyageReplayService.get_replay_frame(voyage, frame_index)
GetReplayFrame(p) ==
  \E voyage \in VoyageIds, frame_index \in FrameIndexes :
    /\ Query(p, [op |-> "get_replay_frame", voyage |-> voyage,
                 frame_index |-> frame_index])
    /\ LET positions_list == OrderByTimestamp({ r \in positions : r.voyage = voyage })
       IN \/ /\ (frame_index < 0 \/ frame_index >= Len(positions_list))
             /\ ret' = [ret EXCEPT ![p] = [kind |-> "no_frame"]]
          \/ /\ ~(frame_index < 0 \/ frame_index >= Len(positions_list))
             /\ LET position == positions_list[frame_index + 1]
                IN ret' = [ret EXCEPT ![p] =
                     [kind |-> "frame", frame_index |-> frame_index,
                      latitude |-> position.latitude,
                      longitude |-> position.longitude,
                      speed |-> position.speed, heading |-> position.heading,
                      timestamp |-> position.timestamp, source |-> position.source]]
          \/ \* the store fails: except Exception: return None
             ret' = [ret EXCEPT ![p] = [kind |-> "no_frame"]]
    /\ UNCHANGED <<positions, voyages, vessels, audit>>

(* -------------------------------- admin -------------------------------- *)
\* VesselPositionAdmin: between calls an administrator marks one stored
\* position as interpolated
AdminMarkInterpolated ==
  /\ \A p \in Procs : Idle(p)
  /\ \A r \in positions : ~r.is_interpolated
  /\ \E r \in positions :
       /\ positions' = (positions \ {r}) \cup {[r EXCEPT !.is_interpolated = TRUE]}
  /\ UNCHANGED <<voyages, vessels, audit, nextId, now, calls, pc, args,
                 active_voyage, tx, ret>>

(* ------------------------------ retention ------------------------------ *)
\* a mutation of CleanupOldPositions: a position at the cutoff counts as old
CleanupOldPositionsInclusive(p) ==
  \E dry_run \in BOOLEAN :
    /\ Call(p, [op |-> "cleanup_old_positions", dry_run |-> dry_run])
    /\ LET cutoff_date == now - position_retention_days * 24
           old_positions == { r \in positions : r.timestamp <= cutoff_date }
           count == Cardinality(old_positions)
       IN IF ~dry_run /\ count > 0
            THEN IF LogActionFails(NoVessel)
                   THEN \* except Exception: return {'error': str(e)}
                        /\ ret' = [ret EXCEPT ![p] =
                              [kind |-> "error", error |-> "IntegrityError"]]
                        /\ UNCHANGED <<positions, audit>>
                   ELSE /\ audit' = Append(audit,
                              AuditEntry("DATA_RETENTION", NoVessel, NULL, FALSE))
                        /\ positions' = positions \ old_positions
                        /\ ret' = [ret EXCEPT ![p] =
                              [kind |-> "cleanup", records_found |-> count,
                               records_deleted |-> count]]
            ELSE /\ ret' = [ret EXCEPT ![p] =
                       [kind |-> "cleanup", records_found |-> count,
                        records_deleted |-> 0]]
                 /\ UNCHANGED <<positions, audit>>
    /\ UNCHANGED <<voyages, vessels>>

\* cleanup_old_positions(dry_run)
CleanupOldPositions(p) ==
  \E dry_run \in BOOLEAN :
    /\ Call(p, [op |-> "cleanup_old_positions", dry_run |-> dry_run])
    /\ LET cutoff_date == now - position_retention_days * 24
           old_positions == { r \in positions : r.timestamp < cutoff_date }
           count == Cardinality(old_positions)
       IN IF ~dry_run /\ count > 0
            THEN IF LogActionFails(NoVessel)
                   THEN \* except Exception: return {'error': str(e)}
                        /\ ret' = [ret EXCEPT ![p] =
                              [kind |-> "error", error |-> "IntegrityError"]]
                        /\ UNCHANGED <<positions, audit>>
                   ELSE /\ audit' = Append(audit,
                              AuditEntry("DATA_RETENTION", NoVessel, NULL, FALSE))
                        /\ positions' = positions \ old_positions
                        /\ ret' = [ret EXCEPT ![p] =
                              [kind |-> "cleanup", records_found |-> count,
                               records_deleted |-> count]]
            ELSE /\ ret' = [ret EXCEPT ![p] =
                       [kind |-> "cleanup", records_found |-> count,
                        records_deleted |-> 0]]
                 /\ UNCHANGED <<positions, audit>>
    /\ UNCHANGED <<voyages, vessels>>

\* old_logs.delete(): the entries that are not older than the cutoff, in order
RECURSIVE Kept(_, _)
Kept(seq, old) ==
  IF seq = <<>> THEN <<>>
  ELSE IF Head(seq).timestamp < old
         THEN Kept(Tail(seq), old)
         ELSE <<Head(seq)>> \o Kept(Tail(seq), old)

\* cleanup_old_audit_logs(dry_run)
CleanupOldAuditLogs(p) ==
  \E dry_run \in BOOLEAN :
    /\ Call(p, [op |-> "cleanup_old_audit_logs", dry_run |-> dry_run])
    /\ LET cutoff_date == now - audit_retention_days * 24
           count == Cardinality({ i \in 1..Len(audit) : audit[i].timestamp < cutoff_date })
       IN IF ~dry_run /\ count > 0
            THEN IF LogActionFails(NoVessel)
                   THEN \* except Exception: return {'error': str(e)}
                        /\ ret' = [ret EXCEPT ![p] =
                              [kind |-> "error", error |-> "IntegrityError"]]
                        /\ UNCHANGED audit
                   ELSE /\ audit' = Append(Kept(audit, cutoff_date),
                              AuditEntry("DATA_RETENTION", NoVessel, NULL, FALSE))
                        /\ ret' = [ret EXCEPT ![p] =
                              [kind |-> "cleanup", records_found |-> count,
                               records_deleted |-> count]]
            ELSE /\ ret' = [ret EXCEPT ![p] =
                       [kind |-> "cleanup", records_found |-> count,
                        records_deleted |-> 0]]
                 /\ UNCHANGED audit
    /\ UNCHANGED <<positions, voyages, vessels>>

\* time passes between calls
Tick ==
  /\ now = FirstInstant
  /\ now' = SecondInstant
  /\ \A p \in Procs : Idle(p)
  /\ UNCHANGED <<positions, voyages, vessels, audit, nextId, calls, pc, args,
                 active_voyage, tx, ret>>

(* --------------------------- specifications ---------------------------- *)
\* one caller at a time
Next == \E p \in SeqProcs : record_position(p, Reports)
Spec == Init /\ [][Next]_vars

\* one caller at a time, every operation of the service
NextCore ==
  \/ \E p \in SeqProcs :
       \/ record_position(p, CoreReports)
       \/ GetVoyageRoute(p)
       \/ GetVesselHistory(p)
       \/ GenerateReplayData(p)
       \/ GetVoyageStatistics(p)
       \/ GetReplayFrame(p)
       \/ CleanupOldPositions(p)
       \/ CleanupOldAuditLogs(p)
  \/ Tick
\* voyage 1 departs first
InitCore ==
  /\ Init
  /\ voyages[1].departure_time = 1
  /\ voyages[1].arrival_time = NULL
  /\ voyages[1].status \in {"PLANNED", "IN_PROGRESS"}
  /\ voyages[2].departure_time = MaxTime
SpecCore == InitCore /\ [][NextCore]_vars

\* a caller records the positions of v1 and the administrator edits them; then,
\* between calls, a reader reads
ReadReports == { r \in Reports : r.vessel = "v1" }
InitRead ==
  /\ Init
  /\ voyages[1].departure_time = 1
  /\ voyages[1].arrival_time = NULL
  /\ voyages[1].status \in {"PLANNED", "IN_PROGRESS"}
  /\ voyages[2] = [vessel |-> "v1", departure_time |-> MaxTime, arrival_time |-> NULL,
                   status |-> "COMPLETED"]
NextRead ==
  \/ /\ \A q \in Readers : pc[q] = "idle"
     /\ \/ \E p \in SeqProcs : record_position(p, ReadReports)
        \/ AdminMarkInterpolated
  \/ /\ \A q \in SeqProcs : Idle(q)
     /\ \E p \in Readers :
          \/ GetVoyageRoute(p)
          \/ GetVesselHistory(p)
          \/ GenerateReplayData(p)
          \/ GetVoyageStatistics(p)
          \/ GetReplayFrame(p)
SpecRead == InitRead /\ [][NextRead]_vars

\* callers running concurrently
InitConc ==
  /\ Init
  /\ voyages[1] = [vessel |-> "v1", departure_time |-> 1, arrival_time |-> NULL,
                   status |-> "PLANNED"]
  /\ voyages[2].departure_time = MaxTime
NextConc == \E p \in Procs : record_position(p, ConcReports)
SpecConc == InitConc /\ [][NextConc]_vars

(* ----------------- _interpolate_replay_positions alone ----------------- *)
\* the headings (degrees, 0-359, nullable) and speeds (knots, nullable) of the
\* stored positions a gap lies between
InterpHeadings == {NULL, 0, 10, 90, 180, 270, 350}
InterpSpeeds == {NULL, 0, 8, 12}

\* the stored position of a voyage at the given hour
InterpRow(latitude, longitude, speed, heading, timestamp) ==
  [latitude |-> latitude, longitude |-> longitude, speed |-> speed,
   heading |-> heading, timestamp |-> timestamp, source |-> "AIS",
   is_interpolated |-> FALSE]

\* the list generate_replay_data passes at real-time speed for two stored
\* positions of voyage 1, the first taken at departure and the second gap hours
\* later
InterpPositions(voys, h1, s1, h2, s2, gap) ==
  LET voyage == voys[1]
      first == InterpRow(10, 50, s1, h1, voyage.departure_time)
      second == InterpRow(12, 52, s2, h2, voyage.departure_time + gap)
  IN <<ReplayPosition(first, <<>>, voyage, RatOf(1)),
       ReplayPosition(second, <<first>>, voyage, RatOf(1))>>

\* the service object's threshold and the list it is given
InitInterp ==
  /\ positions = {}
  /\ voyages = [id \in VoyageIds |->
                  [vessel |-> "v1", departure_time |-> 1, arrival_time |-> NULL,
                   status |-> "IN_PROGRESS"]]
  /\ vessels = [v \in Vessels |->
                  [last_position_lat |-> NULL, last_position_lon |-> NULL,
                   speed |-> NULL, heading |-> NULL, last_update |-> FirstInstant]]
  /\ audit = <<>>
  /\ nextId = 1
  /\ now = FirstInstant
  /\ calls = 0
  /\ pc = [p \in Procs |-> "idle"]
  /\ \E h1, h2 \in InterpHeadings, s1, s2 \in InterpSpeeds, gap \in 1..MaxTime,
        threshold \in ThresholdSettings :
       args = [p \in Procs |->
                 IF p \in SeqProcs
                   THEN [op |-> "_interpolate_replay_positions",
                         positions |-> InterpPositions(voyages, h1, s1, h2, s2, gap),
                         threshold |-> threshold]
                   ELSE NoArgs]
  /\ active_voyage = [p \in Procs |-> NULL]
  /\ tx = [p \in Procs |-> EmptyTx]
  /\ ret = [p \in Procs |-> NoRet]

\* self._interpolate_replay_positions(replay_positions)
InterpolateReplayPositions(p) ==
  /\ pc[p] = "idle"
  /\ args[p].op = "_interpolate_replay_positions"
  /\ ret' = [ret EXCEPT ![p] =
               [kind |-> "interpolated",
                positions |-> _interpolate_replay_positions(args[p].positions,
                                                            args[p].threshold)]]
  /\ pc' = [pc EXCEPT ![p] = "done"]
  /\ UNCHANGED <<positions, voyages, vessels, audit, nextId, now, calls, args,
                 active_voyage, tx>>

NextInterp == \E p \in SeqProcs : InterpolateReplayPositions(p)
SpecInterp == InitInterp /\ [][NextInterp]_vars

(* ================================ claims =============================== *)
\* caller p is inside a record_position call
InCall(p) == args[p].op = "record_position" /\ ~Idle(p)

\* caller p's step returns a newly created position
CreatesPosition(p) == pc[p] = "log" /\ pc'[p] = "done"

\* the audit entries a step appends
Appended == SubSeq(audit', Len(audit) + 1, Len(audit'))

\* C1: a record_position call for a (vessel, timestamp) that already has a position
\* returns that position's id and created nothing, and no step of the call adds,
\* removes or changes a position row; a call that creates a position returns the
\* id of the row it stored with the values it was given.
C1_FirstWriteWins ==
  [][\A p \in Procs :
       /\ \A r \in positions :
            (InCall(p) /\ r.vessel = args[p].vessel
                       /\ r.timestamp = args[p].timestamp)
            => /\ positions' = positions
               /\ pc[p] = "check"
                  => /\ pc'[p] = "done"
                     /\ ret'[p] = [kind |-> "position", id |-> r.id, created |-> FALSE]
       /\ CreatesPosition(p)
          => \E r \in positions' \ positions :
               /\ ret'[p] = [kind |-> "position", id |-> r.id, created |-> TRUE]
               /\ r.vessel = args[p].vessel /\ r.timestamp = args[p].timestamp
               /\ r.latitude = args[p].sample.latitude
               /\ r.speed = args[p].sample.speed
               /\ \A o \in positions : o.id # r.id]_vars

\* C1 witness: a second call that passed other values got the first row back
C1_Witness ==
  \E p \in Procs : \E r \in positions :
    /\ pc[p] = "done"
    /\ ret[p] = [kind |-> "position", id |-> r.id, created |-> FALSE]
    /\ r.vessel = args[p].vessel /\ r.timestamp = args[p].timestamp
    /\ r.latitude # args[p].sample.latitude
    /\ r.speed # args[p].sample.speed
    /\ r.source # args[p].sample.source

\* C2: a record_position call that hits an existing (vessel, timestamp) changes no
\* voyage status, does not change the vessel rows and appends no audit entry.
C2_DuplicateChangesNothing ==
  [][\A p \in Procs : \A r \in positions :
       (InCall(p) /\ r.vessel = args[p].vessel /\ r.timestamp = args[p].timestamp)
       => /\ voyages' = voyages
          /\ vessels' = vessels
          /\ audit' = audit]_vars

\* C5: no step of a record_position call but its successful return changes the
\* persisted tables, and a failing step leaves them as they were and re-raises.
C5_Atomic ==
  [][\A p \in Procs :
       (InCall(p) /\ pc'[p] # "done")
       => /\ Committed' = Committed
          /\ pc'[p] = "raised"
             => ret'[p].kind = "raised" /\ tx'[p] = EmptyTx]_vars

\* C5 witness: a call failed after auto-starting a voyage and inserting its row,
\* and the voyage is PLANNED, the row is gone and the audit log is empty
C5_Witness ==
  \E p \in Procs :
    /\ pc[p] = "raised"
    /\ active_voyage[p] # NULL
    /\ voyages[active_voyage[p]].status = "PLANNED"
    /\ nextId = 2
    /\ positions = {}
    /\ audit = <<>>

\* the IN_PROGRESS voyages of vessel v whose [departure, arrival] contains t
C6_Containing(v, t) ==
  { id \in VoyageIds :
      /\ voyages[id].vessel = v
      /\ voyages[id].status = "IN_PROGRESS"
      /\ voyages[id].departure_time <= t
      /\ (voyages[id].arrival_time = NULL \/ voyages[id].arrival_time >= t) }

\* the PLANNED voyages of vessel v that depart no later than t + 2 hours
C7_Due(v, t) ==
  { id \in VoyageIds :
      /\ voyages[id].vessel = v
      /\ voyages[id].status = "PLANNED"
      /\ voyages[id].departure_time <= t + 2 }

\* C6: when a new position is recorded for v at t and an IN_PROGRESS voyage of v
\* has departure_time <= t and arrival_time null or >= t, the position is
\* associated with such a voyage and the call starts no voyage.
C6_AssociatesInProgress ==
  [][\A p \in Procs :
       (CreatesPosition(p) /\ C6_Containing(args[p].vessel, args[p].timestamp) # {})
       => /\ \E r \in positions' \ positions :
               r.voyage \in C6_Containing(args[p].vessel, args[p].timestamp)
          /\ voyages' = voyages
          /\ \A i \in 1..Len(Appended) : Appended[i].action # "VOYAGE_UPDATED"]_vars

\* C6 witness: positions recorded at the departure hour and at the arrival hour
\* of an IN_PROGRESS voyage carry that voyage
C6_Witness ==
  \E r1, r2 \in positions :
    /\ r1.voyage # NULL /\ r2.voyage = r1.voyage
    /\ voyages[r1.voyage].departure_time = r1.timestamp
    /\ voyages[r1.voyage].arrival_time = r2.timestamp
    /\ \A i \in 1..Len(audit) : audit[i].action # "VOYAGE_UPDATED"

\* C7: when a new position is recorded at t, no IN_PROGRESS voyage of the vessel
\* contains t and some PLANNED voyage of the vessel departs no later than t + 2
\* hours, one such voyage becomes IN_PROGRESS, no other voyage changes, exactly
\* one VOYAGE_UPDATED entry with auto_started is appended, for that voyage, and
\* the new position is associated with it.
C7_AutoStart ==
  [][\A p \in Procs :
       (/\ CreatesPosition(p)
        /\ C6_Containing(args[p].vessel, args[p].timestamp) = {}
        /\ C7_Due(args[p].vessel, args[p].timestamp) # {})
       => \E id \in C7_Due(args[p].vessel, args[p].timestamp) :
            /\ voyages' = [voyages EXCEPT ![id].status = "IN_PROGRESS"]
            /\ \E r \in positions' \ positions : r.voyage = id
            /\ { i \in 1..Len(Appended) : Appended[i].action = "VOYAGE_UPDATED" } = {1}
            /\ Appended[1].voyage = id
            /\ Appended[1].auto_started
            /\ Appended[1].vessel = args[p].vessel]_vars

\* C7 witness: a voyage departing two hours after the position was auto-started
C7_Witness ==
  \E r \in positions :
    /\ r.voyage # NULL
    /\ voyages[r.voyage].status = "IN_PROGRESS"
    /\ voyages[r.voyage].departure_time = r.timestamp + 2
    /\ \E i \in 1..Len(audit) :
         audit[i].action = "VOYAGE_UPDATED" /\ audit[i].voyage = r.voyage

\* C8: when a new position is recorded at t and the vessel has neither an
\* IN_PROGRESS voyage containing t nor a PLANNED voyage departing by t + 2 hours,
\* the position is stored with a null voyage and no voyage changes.
C8_Unassociated ==
  [][\A p \in Procs :
       (/\ CreatesPosition(p)
        /\ C6_Containing(args[p].vessel, args[p].timestamp) = {}
        /\ C7_Due(args[p].vessel, args[p].timestamp) = {})
       => /\ \E r \in positions' \ positions : r.voyage = NULL
          /\ voyages' = voyages]_vars

\* C8 witness: a position of a vessel whose only PLANNED voyage departs more than
\* two hours later is stored without a voyage, and the voyage is still PLANNED
C8_Witness ==
  \E r \in positions : \E id \in VoyageIds :
    /\ r.voyage = NULL
    /\ voyages[id].vessel = r.vessel
    /\ voyages[id].status = "PLANNED"
    /\ voyages[id].departure_time > r.timestamp + 2
    /\ \A o \in VoyageIds : voyages[o].status \in {"PLANNED", "COMPLETED"}

\* C9: the only change any operation of the service makes to a voyage is the
\* status change PLANNED -> IN_PROGRESS: an IN_PROGRESS, COMPLETED or CANCELLED
\* voyage keeps its status and no voyage becomes PLANNED.
C9_OnlyPlannedToInProgress ==
  [][\A id \in VoyageIds :
       \/ voyages'[id] = voyages[id]
       \/ /\ voyages[id].status = "PLANNED"
          /\ voyages'[id] = [voyages[id] EXCEPT !.status = "IN_PROGRESS"]]_vars

\* C9 witness: a voyage was auto-started and, after a retention sweep, a COMPLETED
\* or CANCELLED voyage of the vessel that had departed by that hour still is
C9_Witness ==
  \E r \in positions : \E o \in VoyageIds :
    /\ r.voyage # NULL /\ r.voyage # o
    /\ \E i \in 1..Len(audit) :
         audit[i].action = "VOYAGE_UPDATED" /\ audit[i].voyage = r.voyage
    /\ voyages[o].status \in {"COMPLETED", "CANCELLED"}
    /\ voyages[o].vessel = r.vessel
    /\ voyages[o].departure_time <= r.timestamp
    /\ \E p \in Procs :
         args[p].op = "cleanup_old_positions" /\ ~args[p].dry_run /\ pc[p] = "done"

\* C10: every vessel has at most one IN_PROGRESS voyage.
C10_OneInProgress ==
  \A v \in Vessels : \A i, j \in VoyageIds :
    (/\ voyages[i].vessel = v /\ voyages[i].status = "IN_PROGRESS"
     /\ voyages[j].vessel = v /\ voyages[j].status = "IN_PROGRESS")
    => i = j

\* C3: the position table holds at most one row per (vessel, timestamp).
C3_UniquePerVesselTimestamp ==
  \A r1, r2 \in positions :
    (r1.vessel = r2.vessel /\ r1.timestamp = r2.timestamp) => r1 = r2

\* C3 witness: two concurrent calls for one (vessel, timestamp) both passed the
\* duplicate check; one stored its row and the other's insert was rejected
C3_Witness ==
  \E p, q \in Procs :
    /\ p # q
    /\ pc[p] = "done" /\ ret[p].kind = "position" /\ ret[p].created
    /\ ret[q] = [kind |-> "raised", error |-> "IntegrityError"]
    /\ args[p].vessel = args[q].vessel
    /\ args[p].timestamp = args[q].timestamp
    /\ Cardinality(ExistingPositions(positions, args[p].vessel, args[p].timestamp)) = 1

\* C4: no record_position call ends with the unique index's IntegrityError: the
\* call whose insert loses returns the existing position.
C4_LoserReturnsExisting ==
  \A p \in Procs :
    ret[p].kind = "raised" => ret[p].error # "IntegrityError"

\* the stored positions of vessel v with the greatest timestamp
C11_Latest(v) ==
  { r \in positions : r.vessel = v /\ \A o \in positions :
                        o.vessel = v => o.timestamp <= r.timestamp }

\* C11: between calls, the cached last_position_lat, last_position_lon and
\* last_update of every vessel that has stored positions are the latitude,
\* longitude and timestamp of its stored position with the greatest timestamp.
C11_CacheIsLatest ==
  (\A p \in Procs : Idle(p))
  => \A v \in Vessels : \A r \in C11_Latest(v) :
       /\ vessels[v].last_position_lat = r.latitude
       /\ vessels[v].last_position_lon = r.longitude
       /\ vessels[v].last_update = r.timestamp

\* caller p's step is a completed call of operation op
Completes(p, op) ==
  /\ args'[p].op = op
  /\ pc'[p] = "done"
  /\ (pc[p] # "done" \/ calls' # calls)

\* C12: a get_voyage_route call that meets no store error returns one entry per
\* stored position of the given voyage, leaving out the positions flagged
\* is_interpolated unless include_interpolated is true, and no other entry, in
\* ascending timestamp order.
C12_RouteOfVoyage ==
  [][\A p \in Procs :
       (Completes(p, "get_voyage_route") /\ ~ret'[p].error_logged)
       => LET route == ret'[p].route
              rows == { r \in positions :
                          /\ r.voyage = args'[p].voyage
                          /\ (args'[p].include_interpolated \/ ~r.is_interpolated) }
          IN /\ Len(route) = Cardinality(rows)
             /\ \A r \in rows : \E i \in 1..Len(route) :
                  /\ route[i].timestamp = r.timestamp
                  /\ route[i].latitude = r.latitude
                  /\ route[i].longitude = r.longitude
                  /\ route[i].is_interpolated = r.is_interpolated
             /\ \A i \in 1..(Len(route) - 1) :
                  route[i].timestamp < route[i + 1].timestamp]_vars

\* C12 witness: a route read with include_interpolated returned two positions
\* that were recorded latest first, the flagged one among them
C12_Witness ==
  \E p \in Procs : \E r1, r2 \in positions :
    /\ args[p].op = "get_voyage_route" /\ pc[p] = "done"
    /\ args[p].include_interpolated
    /\ ~ret[p].error_logged
    /\ Len(ret[p].route) = 2
    /\ r1.voyage = args[p].voyage /\ r2.voyage = args[p].voyage
    /\ r1.id < r2.id /\ r1.timestamp > r2.timestamp
    /\ r1.is_interpolated
    /\ ret[p].route[2].is_interpolated

\* C13: a get_vessel_history call that meets no store error returns entries of
\* stored positions of the vessel with start_date <= timestamp <= end_date, in
\* ascending timestamp order; for every limit >= 0 it returns at most limit of
\* them, the earliest ones; has_more is true iff the returned count equals limit.
C13_HistoryWindowAndLimit ==
  [][\A p \in Procs :
       (Completes(p, "get_vessel_history") /\ ret'[p].kind = "history")
       => LET a == args'[p]
              list == ret'[p].positions
              rows == { r \in positions :
                          /\ r.vessel = a.vessel
                          /\ a.start_date <= r.timestamp
                          /\ r.timestamp <= a.end_date }
              returned == { r \in rows : \E i \in 1..Len(list) :
                              /\ list[i].timestamp = r.timestamp
                              /\ list[i].latitude = r.latitude }
          IN /\ Cardinality(returned) = Len(list)
             /\ \A i \in 1..(Len(list) - 1) : list[i].timestamp < list[i + 1].timestamp
             /\ Len(list) <= a.limit
             /\ \A r \in rows \ returned :
                  /\ Len(list) = a.limit
                  /\ \A o \in returned : o.timestamp < r.timestamp
             /\ ret'[p].has_more = (Len(list) = a.limit)]_vars

\* the sum of distance_to over the rows of S and their predecessors in rows,
\* the predecessor of a row being the latest row before it
RECURSIVE C14_PairSum(_, _)
C14_PairSum(rows, S) ==
  IF S = {} THEN RatOf(0)
  ELSE LET r == CHOOSE x \in S : TRUE
           before == { o \in rows : o.timestamp < r.timestamp }
           step == IF before = {} THEN RatOf(0)
                   ELSE distance_to(r, CHOOSE o \in before :
                                         \A x \in before : x.timestamp <= o.timestamp)
       IN RatAdd(step, C14_PairSum(rows, S \ {r}))

\* the rows of the voyage a statistics call is about
C14_Rows(p) == { r \in positions : r.voyage = args'[p].voyage }

C15_EmptyVoyage ==
  [][\A p \in Procs :
       /\ (/\ Completes(p, "get_voyage_route")
           /\ \A r \in positions : r.voyage # args'[p].voyage)
          => ret'[p].kind = "route" /\ ret'[p].route = <<>>
       /\ (/\ (\/ Completes(p, "generate_replay_data")
               \/ Completes(p, "get_voyage_statistics"))
           /\ \A r \in positions : r.voyage # args'[p].voyage)
          => /\ ret'[p].kind = "error"
             /\ DOMAIN ret'[p] = {"kind", "error"}]_vars

\* C15 witness: a replay was asked of a voyage without positions while the
\* vessel has stored positions, and the error result came back
C15_Witness ==
  \E p \in Procs :
    /\ args[p].op = "generate_replay_data" /\ pc[p] = "done"
    /\ positions # {}
    /\ \A r \in positions : r.voyage # args[p].voyage
    /\ ret[p] = [kind |-> "error", error |-> "No position data available for this voyage"]
    /\ audit[Len(audit)].action = "REPLAY_STARTED"

\* the entries of a replay that come from stored positions, in the order returned
C16_Actual(replay) ==
  SelectSeq(replay.positions, LAMBDA e : e.timestamp # NULL)

\* C16: a generate_replay_data call with multiplier m that returns replay data
\* returns one entry per stored position of the voyage, in ascending timestamp
\* order, with time_offset_seconds = 3600 * (timestamp - departure_time in
\* hours), replay_time_seconds = time_offset_seconds / m, and
\* distance_from_previous = 0 for the first and distance_to the previous stored
\* position for the others; replay_duration_seconds = actual_duration_seconds / m.
C16_ReplayTiming ==
  [][\A p \in Procs :
       (Completes(p, "generate_replay_data") /\ ret'[p].kind = "replay")
       => LET m == args'[p].speed_multiplier
              voyage == voyages[args'[p].voyage]
              rows == { r \in positions : r.voyage = args'[p].voyage }
              actual == C16_Actual(ret'[p])
          IN /\ Len(actual) = Cardinality(rows)
             /\ \A i \in 1..(Len(actual) - 1) :
                  actual[i].timestamp < actual[i + 1].timestamp
             /\ \A i \in 1..Len(actual) : \E r \in rows :
                  /\ actual[i].timestamp = r.timestamp
                  /\ actual[i].latitude = RatOf(r.latitude)
                  /\ actual[i].longitude = RatOf(r.longitude)
                  /\ actual[i].time_offset_seconds =
                       RatOf(3600 * (r.timestamp - voyage.departure_time))
                  /\ RatMul(actual[i].replay_time_seconds, m) =
                       actual[i].time_offset_seconds
                  /\ i = 1 => actual[i].distance_from_previous = RatOf(0)
                  /\ i > 1 => \E o \in rows :
                       /\ o.timestamp = actual[i - 1].timestamp
                       /\ actual[i].distance_from_previous = distance_to(r, o)
             /\ RatMul(ret'[p].replay_duration_seconds, m) =
                  ret'[p].actual_duration_seconds]_vars

\* C16 witness: a replay at double speed of two positions recorded latest first:
\* the second entry is 168.262 nautical miles from the first and its replay
\* time is half its offset
C16_Witness ==
  \E p \in Procs : \E r1, r2 \in positions :
    /\ args[p].op = "generate_replay_data" /\ pc[p] = "done"
    /\ ret[p].kind = "replay"
    /\ args[p].speed_multiplier = Rat(2, 1)
    /\ ~args[p].interpolate_gaps
    /\ r1.voyage = args[p].voyage /\ r2.voyage = args[p].voyage
    /\ r1.id < r2.id /\ r1.timestamp > r2.timestamp
    /\ Len(ret[p].positions) = 2
    /\ ret[p].positions[2].distance_from_previous = Rat(168262, 1000)
    /\ ret[p].positions[2].time_offset_seconds = RatOf(7200)
    /\ ret[p].positions[2].replay_time_seconds = RatOf(3600)
    /\ ret[p].replay_duration_seconds = RatOf(3600)

\* C17: every successful call of record_position that stores a position, of
\* get_voyage_route, get_vessel_history, generate_replay_data,
\* get_voyage_statistics and get_replay_frame appends at least one audit entry.
C17_EveryAccessAudited ==
  [][\A p \in Procs :
       (\/ CreatesPosition(p)
        \/ (Completes(p, "get_voyage_route") /\ ~ret'[p].error_logged)
        \/ (Completes(p, "get_vessel_history") /\ ret'[p].kind = "history")
        \/ (Completes(p, "generate_replay_data") /\ ret'[p].kind = "replay")
        \/ (Completes(p, "get_voyage_statistics") /\ ret'[p].kind = "statistics")
        \/ (Completes(p, "get_replay_frame") /\ ret'[p].kind = "frame"))
       => Len(audit') > Len(audit)]_vars

\* C18: the actual_duration_seconds of a replay is the time from the voyage's
\* earliest stored position to its latest one, in seconds, whatever the voyage's
\* departure_time.
C18_ActualDuration ==
  [][\A p \in Procs :
       (Completes(p, "generate_replay_data") /\ ret'[p].kind = "replay")
       => \E first, last \in { r \in positions : r.voyage = args'[p].voyage } :
            /\ \A r \in positions :
                 r.voyage = args'[p].voyage
                 => first.timestamp <= r.timestamp /\ r.timestamp <= last.timestamp
            /\ ret'[p].actual_duration_seconds =
                 RatOf(3600 * (last.timestamp - first.timestamp))]_vars

\* C19: in a replay made with interpolate_gaps and threshold T, the first and
\* the last entry are stored positions, and between two consecutive stored
\* positions whose offsets differ by g there is no synthetic entry if g <= T and
\* there are exactly N = floor(g / T) of them if g > T, the j-th at time offset
\* prev + g * j / (N + 1) with latitude and longitude interpolated by the same
\* ratio j / (N + 1).
C19_GapInterpolation ==
  [][\A p \in Procs :
       (/\ Completes(p, "generate_replay_data")
        /\ ret'[p].kind = "replay"
        /\ args'[p].interpolate_gaps)
       => LET seq == ret'[p].positions
              T == RatOf(args'[p].threshold * 60)
              IsActual(i) == seq[i].timestamp # NULL
          IN /\ IsActual(1) /\ IsActual(Len(seq))
             /\ \A a, b \in 1..Len(seq) :
                  (/\ a < b /\ IsActual(a) /\ IsActual(b)
                   /\ \A i \in (a + 1)..(b - 1) : ~IsActual(i))
                  => LET prev == seq[a]
                         cur == seq[b]
                         g == RatSub(cur.time_offset_seconds, prev.time_offset_seconds)
                         N == IF RatLess(T, g) THEN (g.n * T.d) \div (g.d * T.n) ELSE 0
                     IN /\ b - a - 1 = N
                        /\ \A j \in 1..N :
                             /\ seq[a + j].time_offset_seconds =
                                  RatAdd(prev.time_offset_seconds,
                                         RatMul(g, Rat(j, N + 1)))
                             /\ seq[a + j].latitude =
                                  RatAdd(prev.latitude,
                                         RatMul(RatSub(cur.latitude, prev.latitude),
                                                Rat(j, N + 1)))
                             /\ seq[a + j].longitude =
                                  RatAdd(prev.longitude,
                                         RatMul(RatSub(cur.longitude, prev.longitude),
                                                Rat(j, N + 1)))
                             /\ RatLess(prev.time_offset_seconds,
                                        seq[a + j].time_offset_seconds)
                             /\ RatLess(seq[a + j].time_offset_seconds,
                                        cur.time_offset_seconds)]_vars

\* C19 witness: with a 120-minute threshold, a replay of two positions three hours
\* apart has one synthetic entry between them, half way in time and in latitude
C19_Witness ==
  \E p \in Procs :
    /\ args[p].op = "generate_replay_data" /\ pc[p] = "done"
    /\ ret[p].kind = "replay"
    /\ args[p].interpolate_gaps
    /\ args[p].threshold = 120
    /\ Len(ret[p].positions) = 3
    /\ ret[p].positions[2].timestamp = NULL
    /\ ret[p].positions[1].latitude = RatOf(10)
    /\ ret[p].positions[2].latitude = RatOf(11)
    /\ ret[p].positions[3].latitude = RatOf(12)
    /\ RatSub(ret[p].positions[3].time_offset_seconds,
              ret[p].positions[1].time_offset_seconds) = RatOf(10800)
    /\ RatSub(ret[p].positions[2].time_offset_seconds,
              ret[p].positions[1].time_offset_seconds) = RatOf(5400)

\* x lies strictly between a and b
C20_Between(x, a, b) ==
  \/ RatLess(a, x) /\ RatLess(x, b)
  \/ RatLess(b, x) /\ RatLess(x, a)

\* p completes a replay with interpolation and a 30-minute threshold of a voyage
\* of two stored positions exactly two hours apart, and the replay holds k
\* synthetic entries between the two, each with a time offset strictly between
\* the endpoints' offsets and, where the endpoints differ in a coordinate, that
\* coordinate strictly between the endpoints'
C20_Inserts(p, k) ==
  (/\ Completes(p, "generate_replay_data")
   /\ ret'[p].kind = "replay"
   /\ args'[p].interpolate_gaps
   /\ args'[p].threshold = 30
   /\ \E a, b \in positions :
        /\ { r \in positions : r.voyage = args'[p].voyage } = {a, b}
        /\ b.timestamp = a.timestamp + 2)
  => LET seq == ret'[p].positions
         first == seq[1]
         last == seq[Len(seq)]
     IN /\ Len(seq) = k + 2
        /\ first.timestamp # NULL /\ last.timestamp # NULL
        /\ \A i \in 2..(Len(seq) - 1) :
             /\ seq[i].timestamp = NULL
             /\ seq[i].source = "INTERPOLATED"
             /\ C20_Between(seq[i].time_offset_seconds,
                            first.time_offset_seconds, last.time_offset_seconds)
             /\ first.latitude # last.latitude
                => C20_Between(seq[i].latitude, first.latitude, last.latitude)
             /\ first.longitude # last.longitude
                => C20_Between(seq[i].longitude, first.longitude, last.longitude)

C21_Synthetic(p) ==
  { i \in 1..Len(ret[p].positions) : ret[p].positions[i].timestamp = NULL }

\* C21: a synthetic point's speed is null iff one of the two stored positions
\* around it has a null speed, and its heading is null iff one of them has a null
\* heading: a speed of 0 knots and a heading of 0 degrees count as present, and
\* an interpolated heading of 0 degrees is reported as 0.
C21_NullOnlyWhenMissing ==
  \A p \in Procs :
    (pc[p] = "done" /\ ret[p].kind = "interpolated")
    => LET previous_pos == args[p].positions[1]
           current_pos == args[p].positions[2]
       IN \A i \in C21_Synthetic(p) :
            /\ ret[p].positions[i].speed = NullRat
               <=> (previous_pos.speed = NullRat \/ current_pos.speed = NullRat)
            /\ ret[p].positions[i].heading = NULL
               <=> (previous_pos.heading = NULL \/ current_pos.heading = NULL)

\* the signed shortest turn, in degrees, from heading h1 to heading h2
C22_ShortestTurn(h1, h2) == ((h2 - h1 + 540) % 360) - 180

\* C22: when the two stored positions around a gap have headings h1 and h2 in
\* 0..359 that are not exactly opposite, every heading given to a synthetic point
\* lies on the shorter arc from h1 to h2: it is the whole-degree part of h1 turned
\* by ratio * (shortest turn from h1 to h2), modulo 360, and it is no further from
\* h1 in the direction of that turn than h2 is.
C22_ShorterArc ==
  \A p \in Procs :
    (pc[p] = "done" /\ ret[p].kind = "interpolated")
    => LET h1 == args[p].positions[1].heading
           h2 == args[p].positions[2].heading
           seq == ret[p].positions
           N == Len(seq) - 2
           turn == C22_ShortestTurn(h1, h2)
       IN (/\ h1 \in 0..359 /\ h2 \in 0..359
           /\ (h2 - h1) % 360 # 180)
          => \A j \in 1..N :
               seq[j + 1].heading # NULL
               => /\ seq[j + 1].heading \in 0..359
                  /\ RatLess(RatSub(RatMod360(RatAdd(RatOf(h1),
                                      RatMul(RatOf(turn), Rat(j, N + 1)))),
                                    RatOf(seq[j + 1].heading)), RatOf(1))
                  /\ ~RatLess(RatMod360(RatAdd(RatOf(h1),
                                RatMul(RatOf(turn), Rat(j, N + 1)))),
                              RatOf(seq[j + 1].heading))
                  /\ IF turn >= 0
                       THEN (seq[j + 1].heading - h1) % 360 <= turn
                       ELSE (h1 - seq[j + 1].heading) % 360 <= -turn

\* C22 witness: between headings 350 and 10, two hours apart with the 30-minute
\* threshold, the four synthetic points head 354, 358, 2 and 6
C22_Witness ==
  \E p \in Procs :
    /\ pc[p] = "done" /\ ret[p].kind = "interpolated"
    /\ args[p].positions[1].heading = 350
    /\ args[p].positions[2].heading = 10
    /\ Len(ret[p].positions) = 6
    /\ [i \in 1..4 |-> ret[p].positions[i + 1].heading] = <<354, 358, 2, 6>>

\* C23: a generate_replay_data call appends REPLAY_STARTED before it reads the
\* positions: a call that answers from the positions, with replay data or with
\* the no-position error, has appended exactly one REPLAY_STARTED entry for its
\* voyage.  REPLAY_COMPLETED is appended only by a call that returns replay data,
\* once, right after that call's REPLAY_STARTED; a call that finds no positions
\* or fails appends no REPLAY_COMPLETED, and nothing else appends either entry.
C23_ReplayAudit ==
  [][\A p \in Procs :
       LET isStarted(e) == /\ e.action = "REPLAY_STARTED"
                           /\ e.voyage = args'[p].voyage
                           /\ e.vessel = voyages[args'[p].voyage].vessel
           isCompleted(e) == /\ e.action = "REPLAY_COMPLETED"
                             /\ e.voyage = args'[p].voyage
                             /\ e.vessel = voyages[args'[p].voyage].vessel
       IN IF Completes(p, "generate_replay_data")
            THEN /\ SubSeq(audit', 1, Len(audit)) = audit
                 /\ ret'[p].kind = "replay"
                    => /\ Len(Appended) = 2
                       /\ isStarted(Appended[1])
                       /\ isCompleted(Appended[2])
                 /\ ret'[p].kind # "replay"
                    => /\ Len(Appended) <= 1
                       /\ \A i \in 1..Len(Appended) : isStarted(Appended[i])
                 /\ (/\ ret'[p].kind = "error"
                     /\ ret'[p].error = "No position data available for this voyage")
                    => Len(Appended) = 1
            ELSE (\A q \in Procs : ~Completes(q, "generate_replay_data"))
                 => \A i \in (Len(audit) + 1)..Len(audit') :
                      audit'[i].action \notin {"REPLAY_STARTED", "REPLAY_COMPLETED"}]_vars

\* C23 witness: after a position was recorded, a replay call has returned replay
\* data and the log ends with its REPLAY_STARTED and REPLAY_COMPLETED entries
C23_Witness ==
  \E p \in Procs :
    /\ args[p].op = "generate_replay_data" /\ pc[p] = "done"
    /\ ret[p].kind = "replay"
    /\ Len(audit) >= 3
    /\ audit[Len(audit) - 2].action = "POSITION_RECORDED"
    /\ audit[Len(audit) - 1].action = "REPLAY_STARTED"
    /\ audit[Len(audit)].action = "REPLAY_COMPLETED"
    /\ audit[Len(audit)].voyage = args[p].voyage

\* C24: the audit log is append-only: a step of record_position,
\* get_voyage_route, get_vessel_history, generate_replay_data,
\* get_voyage_statistics or cleanup_old_positions, and any step that is not a
\* cleanup_old_audit_logs(dry_run=False) call, leaves every existing entry in
\* place and unchanged: the log before the step is a prefix of the log after it.
C24_AppendOnly ==
  [][(\A p \in Procs :
        ~(/\ Completes(p, "cleanup_old_audit_logs")
          /\ ~args'[p].dry_run))
     => /\ Len(audit') >= Len(audit)
        /\ SubSeq(audit', 1, Len(audit)) = audit]_vars

\* C24 witness: with two entries in the log, cleanup_old_positions(dry_run=False)
\* has been called on a table holding a position older than the cutoff
C24_Witness ==
  \E p \in Procs :
    /\ args[p].op = "cleanup_old_positions" /\ pc[p] = "done"
    /\ ~args[p].dry_run
    /\ Len(audit) >= 2
    /\ audit[1].action = "VOYAGE_UPDATED"
    /\ audit[2].action = "POSITION_RECORDED"
    /\ \E r \in positions : r.timestamp < now - position_retention_days * 24

\* C25: a cleanup_old_audit_logs(dry_run=False) call that finds an entry older
\* than the retention window appends one DATA_RETENTION entry describing the
\* purge, and after the call that entry is in the log and the old entries are
\* not.
C25_PurgeIsLogged ==
  [][\A p \in Procs :
       (/\ Completes(p, "cleanup_old_audit_logs")
        /\ ~args'[p].dry_run
        /\ \E i \in 1..Len(audit) :
             audit[i].timestamp < now - audit_retention_days * 24)
       => /\ Len(audit') >= 1
          /\ audit'[Len(audit')].action = "DATA_RETENTION"
          /\ audit'[Len(audit')].timestamp = now
          /\ \A i \in 1..Len(audit') :
               audit'[i].timestamp >= now - audit_retention_days * 24]_vars

\* C26: after cleanup_old_positions(dry_run=False) returns, no position older
\* than the cutoff (now - position_retention_days) remains, every position at or
\* after the cutoff is still there unchanged, and records_deleted is the number
\* of positions removed.
C26_OldPositionsRemoved ==
  [][\A p \in Procs :
       (/\ Completes(p, "cleanup_old_positions")
        /\ ~args'[p].dry_run)
       => LET cutoff_date == now - position_retention_days * 24
          IN /\ \A r \in positions' : r.timestamp >= cutoff_date
             /\ \A r \in positions : r.timestamp >= cutoff_date => r \in positions'
             /\ positions' \subseteq positions
             /\ ret'[p].kind = "cleanup"
             /\ ret'[p].records_deleted = Cardinality(positions \ positions')]_vars

\* C27: cleanup_old_positions and cleanup_old_audit_logs called with
\* dry_run=True change nothing, neither positions nor audit entries nor voyages
\* nor vessels; records_found is the number of rows older than the cutoff and
\* records_deleted is 0.
C27_DryRun ==
  [][\A p \in Procs :
       /\ (Completes(p, "cleanup_old_positions") /\ args'[p].dry_run)
          => /\ UNCHANGED <<positions, audit, voyages, vessels>>
             /\ ret'[p].kind = "cleanup"
             /\ ret'[p].records_found =
                  Cardinality({ r \in positions :
                                  r.timestamp < now - position_retention_days * 24 })
             /\ ret'[p].records_deleted = 0
       /\ (Completes(p, "cleanup_old_audit_logs") /\ args'[p].dry_run)
          => /\ UNCHANGED <<positions, audit, voyages, vessels>>
             /\ ret'[p].kind = "cleanup"
             /\ ret'[p].records_found =
                  Cardinality({ i \in 1..Len(audit) :
                                  audit[i].timestamp < now - audit_retention_days * 24 })
             /\ ret'[p].records_deleted = 0]_vars

\* C27 witness: a dry run of cleanup_old_positions has counted the one stored
\* position, which is older than the cutoff, and the position is still there
C27_Witness ==
  \E p \in Procs :
    /\ pc[p] = "done"
    /\ args[p] = [op |-> "cleanup_old_positions", dry_run |-> TRUE]
    /\ ret[p].kind = "cleanup"
    /\ ret[p].records_found = 1
    /\ ret[p].records_deleted = 0
    /\ Cardinality(positions) = 1
    /\ \A r \in positions : r.timestamp < now - position_retention_days * 24

\* the result r of a call reports an error raised by the store during the call
C28_StoreError(r) ==
  \/ r.kind = "raised"
  \/ r.kind = "route" /\ r.error_logged
  \/ /\ r.kind = "error"
     /\ "error" \in DOMAIN r
        => r.error \in {"DatabaseError", "IntegrityError"}

\* C28: a store error raised during record_position, get_voyage_route,
\* get_vessel_history, generate_replay_data, get_voyage_statistics,
\* cleanup_old_positions or cleanup_old_audit_logs is re-raised to the caller:
\* the call ends by an exception, not by a return value.
C28_StoreErrorsPropagate ==
  \A p \in Procs :
    C28_StoreError(ret[p]) => (pc[p] = "raised" /\ ret[p].kind = "raised")

\* C29: in the sequence generate_replay_data returns with interpolate_gaps and a
\* speed_multiplier m > 0, every entry, synthetic ones included, has
\* replay_time_seconds = time_offset_seconds / m, and replay_time_seconds never
\* decreases along the sequence.
C29_ReplayTimeScaled ==
  \A p \in Procs :
    (/\ args[p].op = "generate_replay_data" /\ pc[p] = "done"
     /\ ret[p].kind = "replay"
     /\ args[p].interpolate_gaps)
    => LET seq == ret[p].positions
       IN /\ \A i \in 1..Len(seq) :
               seq[i].replay_time_seconds =
                 RatDiv(seq[i].time_offset_seconds, args[p].speed_multiplier)
          /\ \A i \in 1..(Len(seq) - 1) :
               ~RatLess(seq[i + 1].replay_time_seconds, seq[i].replay_time_seconds)

\* C30: every stored position that record_position associated with a voyage has
\* a timestamp at or after that voyage's departure_time, so that its replay
\* time offset is not negative.
C30_NotBeforeDeparture ==
  \A r \in positions :
    r.voyage # NULL
    => /\ r.timestamp >= voyages[r.voyage].departure_time
       /\ total_seconds(r.timestamp - voyages[r.voyage].departure_time) >= 0
====
